---- MODULE Spec2Model ----
(***************************************************************************)
(* A model of the scanning and matching engine of src/main.py: the scan    *)
(* orchestrator (SearchLogic) driven by the front end's start handlers     *)
(* (SearchGUI), the keyword matcher, the token similarity scorer and the   *)
(* chunk comparator (DeepInspector).                                       *)
(***************************************************************************)
EXTENDS Integers, Sequences, FiniteSets, TLC

\* ------------------------------------------------------------------ bounds
\* Search-start events of the front end (Spec).
MaxStarts == 2
\* Files of the archive folder when searches may overlap (Spec).
MaxFiles == 2
\* Files of the archive folder for a single search (SpecRun).
MaxJobs == 11

\* ------------------------------------------------------- program constants
\* count % 5 == 0: the progress cadence of _run_pool.
Cadence == 5

VARIABLES
    stop_flag,      \* SearchLogic.stop_flag
    is_searching,   \* SearchGUI.is_searching
    nfiles,         \* number of files get_files finds in the selected folder
    startsLeft,     \* start events the front end may still receive
    run,            \* run[t]: the search thread t and the locals of its _run_pool
    afterQueue,     \* number of root.after(0, done(c)) callbacks the GUI loop has yet to run
    probe,          \* whether a run records what the last future handed out held
    match,          \* one keyword job: the query, the file and worker_search_file's result
    simscan,        \* one similarity job: reference, target and worker_similarity_scan's result
    inspect,        \* one deep inspection: the two documents and compare_structure's result
    extraction,     \* one file read by both extractors, and what they returned
    HAS_DOCX,       \* whether import docx succeeded
    startQueue,     \* the start events (<Return>, Find Similar) Tk has queued, oldest first
    handlers        \* the start handlers waiting in prep_search's root.update(), innermost last

vars == <<stop_flag, is_searching, nfiles, startsLeft, run, afterQueue, probe,
          match, simscan, inspect, extraction, HAS_DOCX, startQueue, handlers>>

\* The state of the front end and the orchestrator, and that of the single
\* jobs and comparisons the other specifications follow.
searchVars == <<stop_flag, is_searching, nfiles, startsLeft, run, afterQueue, probe,
                startQueue, handlers>>
jobVars == <<match, simscan, inspect, extraction>>

Threads == 1..MaxStarts

\* What a finished future holds: a result tuple whose res[0] is true or
\* false, or the exception its worker raised.
Finished == {"match", "nomatch", "raise"}

\* cbs as run_common builds it: all three callbacks.
GuiCbs == {"on_match", "on_prog", "on_done"}

\* A thread that was not started yet. The fields from onMatchCalls on
\* record what the run's callbacks were given.
IdleRun ==
    [pc |-> "idle", cbs |-> {}, files |-> 0, total |-> 0,
     pending |-> 0, ready |-> 0, last |-> "none",
     count |-> 0, matches |-> 0, mgr |-> FALSE, cancelled |-> FALSE,
     onMatchCalls |-> 0, progCalls |-> 0, progLast |-> 0,
     progFinal |-> 0, progMono |-> TRUE, doneCalls |-> 0, doneArg |-> 0,
     stopReq |-> FALSE, late |-> FALSE, lateMatch |-> FALSE]

\* pc values of a thread inside the with block of _run_pool: waiting in
\* as_completed, at its call of on_match or of on_prog, or leaving the
\* block after the break.
InPool == {"loop", "on_match", "on_prog", "exit"}

\* int(count / total * 100). The double evaluation equals the integer floor
\* for every total below 50 (the first deviation is 29/50, which gives 57).
Percent(count, total) == (count * 100) \div total

\* ------------------------------------------------------------ front end

\* The user presses <Return> in the entry or clicks "Find Similar...": Tk
\* queues the event.
press_return ==
    /\ startsLeft > 0
    /\ startsLeft' = startsLeft - 1
    /\ startQueue' = Append(startQueue, "key")
    /\ UNCHANGED <<stop_flag, is_searching, nfiles, run, afterQueue, probe, handlers, jobVars, HAS_DOCX>>

click_find_similar ==
    /\ startsLeft > 0
    /\ startsLeft' = startsLeft - 1
    /\ startQueue' = Append(startQueue, "sim")
    /\ UNCHANGED <<stop_flag, is_searching, nfiles, run, afterQueue, probe, handlers, jobVars, HAS_DOCX>>

\* The folder sizes tried.
FolderSizes == IF probe THEN 0..MaxJobs ELSE 0..MaxFiles

\* browse_folder: the folder chosen in the dialog replaces the selected
\* one, and with it the files the next get_files finds. The action is
\* followed while something can still read the selected folder: a start
\* that may come, or a thread that has not listed its files yet.
browse_folder ==
    /\ startsLeft > 0 \/ startQueue # <<>> \/ handlers # <<>>
       \/ \E t \in Threads : run[t].pc \in {"thread_key", "thread_sim"}
    /\ \E n \in FolderSizes : n # nfiles /\ nfiles' = n
    /\ UNCHANGED <<stop_flag, is_searching, startsLeft, run, afterQueue, probe,
                   startQueue, handlers, jobVars, HAS_DOCX>>

\* prep_search up to its last statement: a start while a search is active
\* only requests stop() and returns; otherwise is_searching is set and
\* root.update() is entered. Gives the new <<is_searching, stop_flag>> and
\* whether the handler is now inside root.update().
prep_search ==
    IF is_searching THEN <<is_searching, TRUE, FALSE>> ELSE <<TRUE, stop_flag, TRUE>>

\* SearchLogic.stop as the runs see it: the request is made of every run
\* that is inside _run_pool.
NoteStop(r) ==
    IF r.pc \in InPool THEN [r EXCEPT !.stopReq = TRUE] ELSE r

\* threading.Thread(target=..., daemon=True).start(): the statement that
\* follows prep_search in start_keyword and start_similarity, reached
\* whether or not prep_search returned early.
StartThread(target, stopping) ==
    LET t == CHOOSE x \in Threads :
                 run[x].pc = "idle" /\ \A y \in Threads : run[y].pc = "idle" => x <= y
        base == [x \in Threads |-> IF stopping THEN NoteStop(run[x]) ELSE run[x]]
    IN  run' = [base EXCEPT ![t] = [IdleRun EXCEPT !.pc = target, !.cbs = GuiCbs]]

\* A start handler from its call of prep_search on: after an early return
\* of prep_search the thread is started at once; otherwise the handler
\* waits in root.update(), where the GUI loop runs what is queued.
StartHandler(target, waiting) ==
    /\ is_searching' = prep_search[1]
    /\ stop_flag' = prep_search[2]
    /\ IF prep_search[3]
       THEN handlers' = Append(waiting, target) /\ run' = run
       ELSE handlers' = waiting /\ StartThread(target, TRUE)

\* filedialog.askopenfilename is open: the innermost waiting handler is
\* start_similarity at its file dialog. The dialog holds the grab, so the
\* entry and the buttons receive nothing until it is closed.
DialogOpen == handlers # <<>> /\ handlers[Len(handlers)] = "askopenfilename"

\* start_keyword, run for a queued <Return> by the GUI loop or by a
\* root.update(): it returns at once when the entry is empty.
start_keyword ==
    /\ startQueue # <<>> /\ Head(startQueue) = "key"
    /\ ~DialogOpen
    /\ startQueue' = Tail(startQueue)
    /\ \E entered \in BOOLEAN :
         IF entered THEN StartHandler("thread_key", handlers)
         ELSE UNCHANGED <<is_searching, stop_flag, handlers, run>>
    /\ UNCHANGED <<nfiles, startsLeft, afterQueue, probe, jobVars, HAS_DOCX>>

\* start_similarity up to its file dialog, for a queued click on
\* btn_sim. prep_search disables the button and done enables it again, so
\* while is_searching the click invokes nothing; otherwise the handler
\* opens the dialog and waits in it.
start_similarity ==
    /\ startQueue # <<>> /\ Head(startQueue) = "sim"
    /\ ~DialogOpen
    /\ startQueue' = Tail(startQueue)
    /\ handlers' = IF is_searching THEN handlers
                   ELSE Append(handlers, "askopenfilename")
    /\ UNCHANGED <<stop_flag, is_searching, nfiles, startsLeft, run, afterQueue, probe,
                   jobVars, HAS_DOCX>>

\* askopenfilename returns, once the dialog's event loop has run what was
\* queued: start_similarity returns when nothing was chosen and goes on
\* to prep_search otherwise.
askopenfilename_returns ==
    /\ DialogOpen
    /\ afterQueue = 0
    /\ \E chosen \in BOOLEAN :
         IF chosen
         THEN StartHandler("thread_sim", SubSeq(handlers, 1, Len(handlers) - 1))
         ELSE /\ handlers' = SubSeq(handlers, 1, Len(handlers) - 1)
              /\ UNCHANGED <<is_searching, stop_flag, run>>
    /\ UNCHANGED <<nfiles, startsLeft, afterQueue, probe, startQueue, jobVars, HAS_DOCX>>

\* root.update() returns to the innermost waiting handler once nothing is
\* queued; prep_search returns and the handler starts its thread.
update_returns ==
    /\ handlers # <<>> /\ ~DialogOpen
    /\ startQueue = <<>> /\ afterQueue = 0
    /\ handlers' = SubSeq(handlers, 1, Len(handlers) - 1)
    /\ StartThread(handlers[Len(handlers)], FALSE)
    /\ UNCHANGED <<stop_flag, is_searching, nfiles, startsLeft, afterQueue, probe,
                   startQueue, jobVars, HAS_DOCX>>

\* SearchGUI.done, run by the GUI loop for a callback on_done posted.
done ==
    /\ afterQueue > 0
    /\ afterQueue' = afterQueue - 1
    /\ is_searching' = FALSE
    /\ UNCHANGED <<stop_flag, nfiles, startsLeft, run, probe, startQueue, handlers, jobVars, HAS_DOCX>>

\* ------------------------------------------------------------ orchestrator

\* ex.submit for every task: the futures of the pool, none finished, and
\* the executor's manager thread, which exists once something was submitted.
Submit(r, total) ==
    [r EXCEPT !.pc = "loop", !.total = total, !.pending = total,
              !.mgr = (total > 0)]

\* Mutant of CallOnDone: on_done is given the number of completions
\* counted instead of the number of matches.
CallOnDoneWithCount(r) ==
    [r EXCEPT !.doneCalls = @ + 1, !.doneArg = r.count, !.pc = "posted"]

\* cbs['on_done'](matches): root.after has queued done for the GUI loop;
\* the thread is still inside the callback.
CallOnDone(r) ==
    [r EXCEPT !.doneCalls = @ + 1, !.doneArg = r.matches, !.pc = "posted"]

\* files = self.logic.get_files(self.selected_folder): the thread lists
\* the folder selected at that moment. The field files is the number of
\* files a thread has listed and not yet turned into tasks.
get_files(r, next) == [r EXCEPT !.pc = next, !.files = nfiles]

\* thread_key up to its call of run_common.
thread_key(t) ==
    /\ run[t].pc = "thread_key"
    /\ run' = [run EXCEPT ![t] = get_files(@, "run_keyword_search")]
    /\ UNCHANGED <<stop_flag, is_searching, nfiles, startsLeft, afterQueue, probe,
                   startQueue, handlers, jobVars, HAS_DOCX>>

\* thread_sim up to its call of run_common.
thread_sim(t) ==
    /\ run[t].pc = "thread_sim"
    /\ run' = [run EXCEPT ![t] = get_files(@, "run_similarity_search")]
    /\ UNCHANGED <<stop_flag, is_searching, nfiles, startsLeft, afterQueue, probe,
                   startQueue, handlers, jobVars, HAS_DOCX>>

\* The files listed are used up: the search builds its tasks from them, or
\* returns without them.
TasksOf(r) == [r EXCEPT !.files = 0]

\* run_keyword_search, called by run_common with the files listed, up to
\* the submission of the jobs: one task for every file.
run_keyword_search(t) ==
    /\ run[t].pc = "run_keyword_search"
    /\ stop_flag' = FALSE
    /\ run' = [run EXCEPT ![t] = Submit(TasksOf(@), run[t].files)]
    /\ UNCHANGED <<is_searching, nfiles, startsLeft, afterQueue, probe, startQueue, handlers, jobVars, HAS_DOCX>>

\* if not ref_tokens: return
NoReferenceTokens(r) == [r EXCEPT !.pc = "returned"]

\* run_similarity_search, called by run_common with the files listed: a
\* reference without tokens returns at once; a reference among the files
\* listed is left out of the tasks.
run_similarity_search(t) ==
    /\ run[t].pc = "run_similarity_search"
    /\ stop_flag' = FALSE
    /\ \E noTokens \in BOOLEAN, refInFolder \in BOOLEAN :
         /\ refInFolder => run[t].files > 0
         /\ run' = [run EXCEPT ![t] =
                      IF noTokens THEN NoReferenceTokens(TasksOf(@))
                      ELSE Submit(TasksOf(@), IF refInFolder THEN run[t].files - 1
                                              ELSE run[t].files)]
    /\ UNCHANGED <<is_searching, nfiles, startsLeft, afterQueue, probe, startQueue, handlers, jobVars, HAS_DOCX>>

\* A worker process finishes one of the submitted jobs: its future is done
\* and waits for as_completed to hand it out.
JobFinish(t) ==
    /\ run[t].pc \in InPool
    /\ run[t].pending > 0
    /\ run' = [run EXCEPT ![t].pending = @ - 1, ![t].ready = @ + 1]
    /\ UNCHANGED <<stop_flag, is_searching, nfiles, startsLeft, afterQueue, probe, startQueue, handlers, jobVars, HAS_DOCX>>

\* Mutant of ShutdownNoWait: the executor keeps its manager thread, so that
\* leaving the with block joins it.
ShutdownKeepsManager(r) == [r EXCEPT !.cancelled = TRUE, !.pc = "exit"]

\* ex.shutdown(wait=False); break. ProcessPoolExecutor.shutdown drops its
\* reference to the manager thread, so the shutdown(wait=True) of the with
\* block's exit has nothing left to join.
ShutdownNoWait(r) == [r EXCEPT !.cancelled = TRUE, !.mgr = FALSE, !.pc = "exit"]

\* Mutant of ProgressDue: the unconditional report on the final completion
\* is missing.
ProgressDueCadenceOnly(r) ==
    "on_prog" \in r.cbs /\ r.count % Cadence = 0

\* cbs.get('on_prog') and (count % 5 == 0 or count == total)
ProgressDue(r) ==
    "on_prog" \in r.cbs /\ (r.count % Cadence = 0 \/ r.count = r.total)

\* Mutant of HandleResult: the exception of a worker is not caught inside
\* the loop and ends it.
HandleResultUncaught(r, res) ==
    IF res = "match"
    THEN [r EXCEPT !.matches = @ + 1,
                   !.late = ("on_match" \in r.cbs /\ r.stopReq),
                   !.pc = IF "on_match" \in r.cbs THEN "on_match" ELSE "loop"]
    ELSE IF res = "raise" THEN [r EXCEPT !.pc = "exit"]
    ELSE r

\* try: res = f.result(); if res[0]: matches += 1; if cbs.get('on_match')
\* except: pass
\* up to the call of on_match, which the thread makes next. late notes that
\* the completion was taken after a stop request made of this run.
HandleResult(r, res) ==
    IF res = "match"
    THEN [r EXCEPT !.matches = @ + 1,
                   !.late = ("on_match" \in r.cbs /\ r.stopReq),
                   !.pc = IF "on_match" \in r.cbs THEN "on_match" ELSE "loop"]
    ELSE r

\* if cbs.get('on_prog') and (count % 5 == 0 or count == total): the thread
\* goes to its call of on_prog, or back to as_completed.
AfterResult(r) ==
    IF ProgressDue(r) THEN [r EXCEPT !.pc = "on_prog"] ELSE [r EXCEPT !.pc = "loop"]

\* cbs['on_match'](res): root.after has queued add_row for the GUI loop.
CallOnMatch(r) ==
    [r EXCEPT !.onMatchCalls = @ + 1, !.lateMatch = @ \/ r.late, !.late = FALSE]

\* Mutant of ReportProgress: the percentage is that of the jobs left.
ReportProgressRemaining(r) ==
    IF ProgressDue(r)
    THEN LET p == Percent(r.total - r.count, r.total)
         IN  [r EXCEPT !.progCalls = @ + 1, !.progLast = p, !.progFinal = r.count,
                       !.progMono = @ /\ p >= r.progLast /\ p \in 0..100]
    ELSE r

\* cbs['on_prog'](int(count / total * 100), os.path.basename(fs[f]))
ReportProgress(r) ==
    IF ProgressDue(r)
    THEN LET p == Percent(r.count, r.total)
         IN  [r EXCEPT !.progCalls = @ + 1, !.progLast = p, !.progFinal = r.count,
                       !.progMono = @ /\ p >= r.progLast /\ p \in 0..100]
    ELSE r

\* "for f in as_completed(fs)" hands out a finished future and the flag is
\* tested; without a stop request the future is counted and its result or
\* exception handled, up to the first callback the turn has to make.
Take(t) ==
    /\ run[t].pc = "loop"
    /\ run[t].ready > 0
    /\ \E res \in Finished :
         run' = [run EXCEPT ![t] =
                   LET f == [@ EXCEPT !.ready = @ - 1, !.last = IF probe THEN res ELSE "none"]
                   IN  IF stop_flag THEN ShutdownNoWait(f)
                       ELSE LET a == HandleResult([f EXCEPT !.count = @ + 1], res)
                            IN  IF a.pc = "loop" THEN AfterResult(a) ELSE a]
    /\ UNCHANGED <<stop_flag, is_searching, nfiles, startsLeft, afterQueue, probe, startQueue, handlers, jobVars, HAS_DOCX>>

\* The thread's call of on_match: it waits in root.after until the GUI loop
\* serves the call, and goes on to the test for on_prog.
on_match(t) ==
    /\ run[t].pc = "on_match"
    /\ run' = [run EXCEPT ![t] = AfterResult(CallOnMatch(@))]
    /\ UNCHANGED <<stop_flag, is_searching, nfiles, startsLeft, afterQueue, probe, startQueue, handlers, jobVars, HAS_DOCX>>

\* The thread's call of on_prog: it waits in root.after until the GUI loop
\* serves the call, and goes back to as_completed.
on_prog(t) ==
    /\ run[t].pc = "on_prog"
    /\ run' = [run EXCEPT ![t] = [ReportProgress(@) EXCEPT !.pc = "loop"]]
    /\ UNCHANGED <<stop_flag, is_searching, nfiles, startsLeft, afterQueue, probe, startQueue, handlers, jobVars, HAS_DOCX>>

\* Leaving the with block: shutdown(wait=True) joins the manager thread when
\* the executor still refers to one, and that thread ends once no job is
\* pending.
LeaveGuard(r) == r.mgr => r.pending = 0

\* The with block is left: the executor refers to no manager thread any
\* more, and the thread is at "if cbs.get('on_done')".
WithExit(r) ==
    [r EXCEPT !.mgr = FALSE,
              !.pc = IF "on_done" \in r.cbs THEN "on_done" ELSE "returned"]

\* as_completed is exhausted (every future was handed out): the with block
\* is left.
Finish(t) ==
    /\ run[t].pc = "loop"
    /\ run[t].pending = 0 /\ run[t].ready = 0
    /\ LeaveGuard(run[t])
    /\ run' = [run EXCEPT ![t] = WithExit(@)]
    /\ UNCHANGED <<stop_flag, is_searching, nfiles, startsLeft, afterQueue, probe, startQueue, handlers, jobVars, HAS_DOCX>>

\* After the break: the with block is left. Jobs still pending go on in
\* their worker processes and their results are read by nobody.
LeaveAfterBreak(t) ==
    /\ run[t].pc = "exit"
    /\ LeaveGuard(run[t])
    /\ run' = [run EXCEPT ![t] = WithExit(@)]
    /\ UNCHANGED <<stop_flag, is_searching, nfiles, startsLeft, afterQueue, probe, startQueue, handlers, jobVars, HAS_DOCX>>

\* The thread's call of on_done: it waits in root.after until the GUI loop
\* serves the call, which queues done.
on_done(t) ==
    /\ run[t].pc = "on_done"
    /\ run' = [run EXCEPT ![t] = CallOnDone(@)]
    /\ afterQueue' = afterQueue + 1
    /\ UNCHANGED <<stop_flag, is_searching, nfiles, startsLeft, probe, startQueue, handlers, jobVars, HAS_DOCX>>

\* on_done returns, and with it _run_pool, the search and run_common: the
\* thread ends. done may have run before.
thread_ends(t) ==
    /\ run[t].pc = "posted"
    /\ run' = [run EXCEPT ![t].pc = "returned"]
    /\ UNCHANGED <<stop_flag, is_searching, nfiles, startsLeft, afterQueue, probe, startQueue, handlers, jobVars, HAS_DOCX>>

\* No single job or comparison is followed.
NoJob == [phase |-> "none"]

\* ------------------------------------------------------------ text

\* Text is a sequence of one-character strings.
UpperLetters ==
    <<"A", "B", "C", "D", "E", "F", "G", "H", "I", "J", "K", "L", "M",
      "N", "O", "P", "Q", "R", "S", "T", "U", "V", "W", "X", "Y", "Z">>
LowerLetters ==
    <<"a", "b", "c", "d", "e", "f", "g", "h", "i", "j", "k", "l", "m",
      "n", "o", "p", "q", "r", "s", "t", "u", "v", "w", "x", "y", "z">>
Digits == <<"0", "1", "2", "3", "4", "5", "6", "7", "8", "9">>

Range(f) == {f[i] : i \in DOMAIN f}

\* CLEAN_TRANS = str.maketrans('', '', ' \n\t\r'): the characters deleted.
CLEAN_TRANS == {" ", "\n", "\t", "\r"}

\* The characters str.strip() removes, among those of the model.
StripChars == {" ", "\n", "\t", "\r"}

LowerChar(c) ==
    IF c \in Range(UpperLetters)
    THEN LowerLetters[CHOOSE i \in DOMAIN UpperLetters : UpperLetters[i] = c]
    ELSE c

\* str.lower()
lower(s) == [i \in 1..Len(s) |-> LowerChar(s[i])]

\* str.translate(table) for a table that only deletes.
translate(s, deleted) == SelectSeq(s, LAMBDA c : c \notin deleted)

\* str.replace(c, "") and str.replace(c, d) for single characters.
remove_char(s, c) == SelectSeq(s, LAMBDA x : x # c)
replace_char(s, c, d) == [i \in 1..Len(s) |-> IF s[i] = c THEN d ELSE s[i]]

\* s[::-1]
reversed(s) == [i \in 1..Len(s) |-> s[Len(s) + 1 - i]]

\* s[a:e] for 0 <= a and the end clipped to the length.
slice(s, a, e) == SubSeq(s, a + 1, IF e > Len(s) THEN Len(s) ELSE e)

\* sub in s
contains(sub, s) ==
    \E i \in 0..(Len(s) - Len(sub)) : SubSeq(s, i + 1, i + Len(sub)) = sub

\* s.find(sub): the first offset, or -1.
find(s, sub) ==
    IF contains(sub, s)
    THEN CHOOSE i \in 0..(Len(s) - Len(sub)) :
             /\ SubSeq(s, i + 1, i + Len(sub)) = sub
             /\ \A j \in 0..(i - 1) : SubSeq(s, j + 1, j + Len(sub)) # sub
    ELSE -1

\* str.strip()
strip(s) ==
    LET keep == {i \in 1..Len(s) : s[i] \notin StripChars}
    IN  IF keep = {} THEN <<>>
        ELSE SubSeq(s, CHOOSE i \in keep : \A j \in keep : i <= j,
                       CHOOSE i \in keep : \A j \in keep : i >= j)

\* max(0, x)
Max0(x) == IF x < 0 THEN 0 ELSE x

\* ------------------------------------------------------------ text extractor

\* A file as the extractors see it: its extension class ("pdf", "word" or
\* "txt" for every other extension), whether open() succeeds, whether the
\* format's library accepts it, the first page whose get_text() raises (0
\* when none does), the texts of its pages or paragraphs, and its bytes
\* decoded as UTF-8 with errors ignored.
File(ext, readable, valid, bad, pages, content) ==
    [ext |-> ext, readable |-> readable, valid |-> valid, bad |-> bad,
     pages |-> pages, content |-> content]

TextFile(readable, content) == File("txt", readable, TRUE, 0, <<>>, content)

\* What open(path, 'r') makes of the decoded bytes: with universal
\* newlines every "\r\n" and every other "\r" is read as "\n".
universal_newlines(s) ==
    LET index == [i \in 1..Len(s) |-> i]
        kept == SelectSeq(index, LAMBDA i : ~(s[i] = "\n" /\ i > 1 /\ s[i - 1] = "\r"))
    IN  [k \in 1..Len(kept) |-> IF s[kept[k]] = "\r" THEN "\n" ELSE s[kept[k]]]

\* text += part + "\n" for every part
RECURSIVE Lines(_)
Lines(parts) ==
    IF parts = <<>> THEN <<>>
    ELSE parts[1] \o <<"\n">> \o Lines(Tail(parts))

\* "\n".join(parts)
RECURSIVE JoinLines(_)
JoinLines(parts) ==
    IF parts = <<>> THEN <<>>
    ELSE IF Len(parts) = 1 THEN parts[1]
    ELSE parts[1] \o <<"\n">> \o JoinLines(Tail(parts))

\* extract_text_from_file: the text of the pages of a PDF, of the paragraphs
\* of a word file when docx is there, and the decoded content of any other
\* file, a word file without docx among them, as text mode reads it; the
\* empty string when anything raises. (The binary read of the inner except
\* runs only when the text-mode open failed, and then fails as well.)
extract_text_from_file(file) ==
    IF file.ext = "pdf"
    THEN (IF file.readable /\ file.valid /\ file.bad = 0
          THEN Lines(file.pages) ELSE <<>>)
    ELSE IF file.ext = "word" /\ HAS_DOCX
    THEN (IF file.readable /\ file.valid THEN Lines(file.pages) ELSE <<>>)
    ELSE (IF file.readable THEN universal_newlines(file.content) ELSE <<>>)

\* ------------------------------------------------------------ keyword matcher

\* The characters before and after the match in a snippet.
Window == 40

Dots == <<".", ".", ".">>
MatchFound == <<"M", "a", "t", "c", "h", " ", "f", "o", "u", "n", "d">>

\* re.search(query, text_lower) for a pattern without metacharacters, which
\* matches where it occurs literally; group(0) is then the pattern.
re_search(pattern, s) == contains(pattern, s)

\* q_c = query if regex else query.lower().replace(" ", "").replace("\t", "")
NormaliseQuery(query, regex) ==
    IF regex THEN query ELSE remove_char(remove_char(lower(query), " "), "\t")

\* _check_match: <<found, message>>. A query_rev of None is the empty
\* sequence, which the code's "query_rev and" treats alike.
check_match(raw_text, query, query_rev, use_regex) ==
    IF raw_text = <<>> THEN [found |-> FALSE, msg |-> <<>>]
    ELSE
    LET text_lower == lower(raw_text)
        text_compressed == translate(text_lower, CLEAN_TRANS)
        direct == IF use_regex THEN re_search(query, text_lower)
                  ELSE contains(query, text_compressed)
        rev == ~use_regex /\ ~direct /\ query_rev # <<>>
               /\ contains(query_rev, text_compressed)
        found == direct \/ rev
        match_term == IF direct THEN query ELSE IF rev THEN query_rev ELSE <<>>
        term == IF match_term # <<>> THEN match_term ELSE query
        located == find(text_lower, term)
        start == IF located = -1 /\ ~use_regex THEN 0 ELSE located
        s == Max0(start - Window)
        e == IF start + Window > Len(text_lower) THEN Len(text_lower) ELSE start + Window
        snip == strip(replace_char(slice(raw_text, s, e), "\n", " "))
    IN  IF ~found THEN [found |-> FALSE, msg |-> <<>>]
        ELSE IF start # -1 THEN [found |-> TRUE, msg |-> Dots \o snip \o Dots]
        ELSE [found |-> TRUE, msg |-> MatchFound]

\* worker_search_file: (found, path, "Text" or 0, snippet); the path is the
\* file's.
worker_search_file(file, query, query_rev, use_regex) ==
    LET res == check_match(extract_text_from_file(file), query, query_rev, use_regex)
    IN  IF res.found THEN [found |-> TRUE, loc |-> "Text", ctx |-> res.msg]
        ELSE [found |-> FALSE, loc |-> "0", ctx |-> <<>>]

\* The characters of the queries and file contents tried.
Alphabet == {"a", "B", " ", "\t", "\n", "\r"}

\* Bounds on the length of the queries and of the file contents.
MaxQueryLen == 2
MaxTextLen == 3

Strings(n) == UNION {[1..k -> Alphabet] : k \in 0..n}

\* A keyword search over one text file.
InitMatch ==
    /\ stop_flag = FALSE
    /\ is_searching = FALSE
    /\ nfiles = 1
    /\ startsLeft = 0
    /\ run = [t \in Threads |-> IdleRun]
    /\ afterQueue = 0
    /\ startQueue = <<>>
    /\ handlers = <<>>
    /\ extraction = NoJob
    /\ HAS_DOCX = TRUE
    /\ probe = FALSE
    /\ simscan = NoJob
    /\ inspect = NoJob
    /\ \E q \in Strings(MaxQueryLen), c \in Strings(MaxTextLen),
          rd \in BOOLEAN, rx \in BOOLEAN :
         match = [phase |-> "task", query |-> q, regex |-> rx,
                  file |-> TextFile(rd, c),
                  res |-> [found |-> FALSE, loc |-> "0", ctx |-> <<>>]]

\* run_keyword_search builds the task (f, q_c, q_r, regex) and the worker
\* runs it.
KeywordJob ==
    /\ match.phase = "task"
    /\ LET q_c == NormaliseQuery(match.query, match.regex)
           q_r == IF match.regex THEN <<>> ELSE reversed(q_c)
       IN  match' = [match EXCEPT !.phase = "done",
                        !.res = worker_search_file(match.file, q_c, q_r, match.regex)]
    /\ UNCHANGED <<searchVars, simscan, inspect, extraction, HAS_DOCX>>

NextMatch == KeywordJob

SpecMatch == InitMatch /\ [][NextMatch]_vars

\* ------------------------------------------------------------ token similarity

\* The shortest token kept is one character longer: len(w) > 3.
MinTokenLen == 3

\* The reporting threshold, score > 5.0.
Threshold == 5

IsWordChar(c) ==
    c \in Range(LowerLetters) \cup Range(UpperLetters) \cup Range(Digits) \cup {"_"}

\* re.findall(r'\w+', s): the maximal runs of word characters, in order.
RECURSIVE findall_words(_, _, _)
findall_words(s, i, word) ==
    IF i > Len(s) THEN (IF word = <<>> THEN <<>> ELSE <<word>>)
    ELSE IF IsWordChar(s[i]) THEN findall_words(s, i + 1, Append(word, s[i]))
    ELSE (IF word = <<>> THEN <<>> ELSE <<word>>) \o findall_words(s, i + 1, <<>>)

\* get_tokens
get_tokens(text) ==
    {w \in Range(findall_words(lower(text), 1, <<>>)) : Len(w) > MinTokenLen}

\* round(x, 1) of x = num / den >= 0, in tenths: the nearest tenth, a tie
\* going to the even one (the doubles num / den * 100 of the scores round
\* the same way for every union below 80).
RoundTenths(num, den) ==
    LET q == (10 * num) \div den
        r == (10 * num) % den
    IN  IF 2 * r > den \/ (2 * r = den /\ q % 2 = 1) THEN q + 1 ELSE q

\* Mutant of AboveThreshold: a score equal to the threshold is reported too.
AtOrAboveThreshold(intersection, union) ==
    union > 0 /\ 100 * intersection >= Threshold * union

\* score = (intersection / union) * 100 if union > 0 else 0; score > 5.0
AboveThreshold(intersection, union) ==
    union > 0 /\ 100 * intersection > Threshold * union

\* worker_similarity_scan: (found, target_path, score), the score in tenths
\* of a percent.
worker_similarity_scan(target, ref_tokens) ==
    LET target_text == extract_text_from_file(target)
        target_tokens == get_tokens(target_text)
        intersection == Cardinality(ref_tokens \cap target_tokens)
        union == Cardinality(ref_tokens \cup target_tokens)
    IN  IF target_text = <<>> THEN [found |-> FALSE, score |-> 0]
        ELSE IF target_tokens = {} THEN [found |-> FALSE, score |-> 0]
        ELSE IF AboveThreshold(intersection, union)
             THEN [found |-> TRUE, score |-> RoundTenths(100 * intersection, union)]
             ELSE [found |-> FALSE, score |-> 0]

\* The number of distinct long words of the documents tried.
MaxVocab == 21

\* The k-th long word, capitalised or not, and a short word.
Word(k, caps) == <<IF caps THEN "T" ELSE "t", "o", "k", LowerLetters[k]>>
ShortWord == <<"t", "h", "e">>

\* A document: the long words a..b separated by spaces, then, if asked for,
\* a comma and a short word.
RECURSIVE WordsText(_, _, _)
WordsText(a, b, caps) ==
    IF a > b THEN <<>>
    ELSE IF a = b THEN Word(a, caps)
    ELSE Word(a, caps) \o <<" ">> \o WordsText(a + 1, b, caps)

Document(a, b, caps, short) ==
    WordsText(a, b, caps) \o (IF short THEN <<",", " ">> \o ShortWord ELSE <<>>)

\* A similarity search with one target file: the reference holds the long
\* words 1..r (so that it has tokens), the target the long words a..b.
InitSim ==
    /\ stop_flag = FALSE
    /\ is_searching = FALSE
    /\ nfiles = 1
    /\ startsLeft = 0
    /\ run = [t \in Threads |-> IdleRun]
    /\ afterQueue = 0
    /\ startQueue = <<>>
    /\ handlers = <<>>
    /\ extraction = NoJob
    /\ HAS_DOCX = TRUE
    /\ probe = FALSE
    /\ match = NoJob
    /\ inspect = NoJob
    /\ \E r \in 1..MaxVocab, a \in 1..MaxVocab, b \in 0..MaxVocab,
          caps \in BOOLEAN, short \in BOOLEAN, rd \in BOOLEAN :
         /\ b >= a - 1
         /\ (b < a) => (a = 1)
         /\ simscan = [phase |-> "task",
                       ref |-> TextFile(TRUE, Document(1, r, FALSE, FALSE)),
                       target |-> TextFile(rd, Document(a, b, caps, short)),
                       res |-> [found |-> FALSE, score |-> 0]]

\* run_similarity_search computes the reference tokens and the worker scans
\* the target.
SimilarityJob ==
    /\ simscan.phase = "task"
    /\ LET ref_tokens == get_tokens(extract_text_from_file(simscan.ref))
       IN  simscan' = [simscan EXCEPT !.phase = "done",
                          !.res = worker_similarity_scan(simscan.target, ref_tokens)]
    /\ UNCHANGED <<searchVars, match, inspect, extraction, HAS_DOCX>>

NextSim == SimilarityJob

SpecSim == InitSim /\ [][NextSim]_vars

\* ------------------------------------------------------------ deep inspection

\* A chunk is kept by the parser when len(cleaned_chunk) > 10, and compared
\* when its length is not below 50; a best score must exceed 15.
MinChunkLen == 10
MinCompareLen == 50
MinScore == 15

\* The length of the preview, ref_item['text'][:100].
PreviewLen == 100

\* difflib's autojunk applies to a second sequence of 200 elements or more.
AutojunkLen == 200

\* str(n) for n >= 0
RECURSIVE str(_)
str(n) ==
    IF n < 10 THEN <<Digits[n + 1]>>
    ELSE str(n \div 10) \o <<Digits[(n % 10) + 1]>>

\* extract_pages: the (label, text) pairs of a document. A PDF gives one
\* pair per page, labelled str(i + 1), up to the page that raises; a word
\* file read with docx gives its paragraphs as the one page "1"; any other
\* file gives its content, as text mode reads it, as the one page "1"; a
\* file that cannot be opened gives no page.
extract_pages(doc) ==
    IF doc.ext = "pdf"
    THEN (IF doc.readable /\ doc.valid
          THEN [i \in 1..(IF doc.bad = 0 THEN Len(doc.pages) ELSE doc.bad - 1) |->
                   <<str(i), doc.pages[i]>>]
          ELSE <<>>)
    ELSE IF doc.ext = "word" /\ HAS_DOCX
    THEN (IF doc.readable /\ doc.valid
          THEN <<<<str(1), JoinLines(doc.pages)>>>> ELSE <<>>)
    ELSE (IF doc.readable THEN <<<<str(1), universal_newlines(doc.content)>>>> ELSE <<>>)

\* The positions of s inside a run of two or more newlines.
Separators(s) ==
    {i \in 1..Len(s) :
        /\ s[i] = "\n"
        /\ \/ (i > 1 /\ s[i - 1] = "\n")
           \/ (i < Len(s) /\ s[i + 1] = "\n")}

\* re.split(r'\n{2,}', s): the pieces between the runs of two or more
\* newlines, in order, empty pieces included. A piece starts at the start
\* of s and after each run, and ends before the next run or with s.
re_split(s) ==
    LET sep == Separators(s)
        starts == {1} \cup {e + 1 : e \in {i \in sep : (i + 1) \notin sep}}
        start(k) == CHOOSE p \in starts : Cardinality({q \in starts : q < p}) = k - 1
        end(p) == IF \E q \in sep : q >= p
                  THEN (CHOOSE q \in sep : q >= p /\ \A r \in sep : r >= p => q <= r) - 1
                  ELSE Len(s)
    IN  [k \in 1..Cardinality(starts) |-> SubSeq(s, start(k), end(start(k)))]

\* The kept chunks of one page, each with the page's label.
PageChunks(page) ==
    LET chunks == re_split(strip(page[2]))
        cleaned == [k \in DOMAIN chunks |-> [text |-> strip(chunks[k]), page |-> page[1]]]
    IN  SelectSeq(cleaned, LAMBDA c : Len(c.text) > MinChunkLen)

RECURSIVE AllChunks(_, _)
AllChunks(pages_data, p) ==
    IF p > Len(pages_data) THEN <<>>
    ELSE PageChunks(pages_data[p]) \o AllChunks(pages_data, p + 1)

\* parse_text_chunks_with_location: the kept chunks in document order,
\* numbered from 1.
parse_text_chunks_with_location(doc) ==
    LET items == AllChunks(extract_pages(doc), 1)
    IN  [k \in DOMAIN items |->
            [id |-> str(k), text |-> items[k].text, page |-> items[k].page]]

\* SequenceMatcher(None, a, b) with autojunk: the characters left out of
\* b2j, those that occur more than 1 + len(b) // 100 times in a b of 200
\* characters or more.
Popular(b) ==
    IF Len(b) >= AutojunkLen
    THEN {c \in Range(b) :
             Cardinality({j \in DOMAIN b : b[j] = c}) > (Len(b) \div 100) + 1}
    ELSE {}

\* j2len: the length of the block of equal characters listed in b2j that
\* ends at a[i], b[j] (offsets from 0) inside the window that starts at
\* alo, blo.
RECURSIVE RunLen(_, _, _, _, _, _, _)
RunLen(a, b, pop, i, j, alo, blo) ==
    IF i < alo \/ j < blo THEN 0
    ELSE IF a[i + 1] # b[j + 1] \/ b[j + 1] \in pop THEN 0
    ELSE 1 + RunLen(a, b, pop, i - 1, j - 1, alo, blo)

Min(S) == CHOOSE x \in S : \A y \in S : x <= y
Max(S) == CHOOSE x \in S : \A y \in S : x >= y

\* The two extension loops of find_longest_match (there is no junk, so the
\* second pair of loops never runs).
RECURSIVE ExtendLeft(_, _, _, _, _)
ExtendLeft(a, b, m, alo, blo) ==
    IF m.i > alo /\ m.j > blo /\ a[m.i] = b[m.j]
    THEN ExtendLeft(a, b, [i |-> m.i - 1, j |-> m.j - 1, k |-> m.k + 1], alo, blo)
    ELSE m

RECURSIVE ExtendRight(_, _, _, _, _)
ExtendRight(a, b, m, ahi, bhi) ==
    IF m.i + m.k < ahi /\ m.j + m.k < bhi /\ a[m.i + m.k + 1] = b[m.j + m.k + 1]
    THEN ExtendRight(a, b, [m EXCEPT !.k = m.k + 1], ahi, bhi)
    ELSE m

\* find_longest_match(alo, ahi, blo, bhi): the longest block found through
\* b2j, the one that ends first in a and then first in b (k > bestsize is
\* strict), or (alo, blo, 0); then extended on both sides.
find_longest_match(a, b, pop, alo, ahi, blo, bhi) ==
    LET ends == {<<i, j, RunLen(a, b, pop, i, j, alo, blo)>> :
                    i \in alo..(ahi - 1), j \in blo..(bhi - 1)}
        bestsize == Max({e[3] : e \in ends})
        besti == Min({e[1] : e \in {f \in ends : f[3] = bestsize}})
        bestj == Min({e[2] : e \in {f \in ends : f[3] = bestsize /\ f[1] = besti}})
        found == IF bestsize = 0 THEN [i |-> alo, j |-> blo, k |-> 0]
                 ELSE [i |-> besti - bestsize + 1, j |-> bestj - bestsize + 1,
                       k |-> bestsize]
    IN  ExtendRight(a, b, ExtendLeft(a, b, found, alo, blo), ahi, bhi)

\* get_matching_blocks: the total size of the blocks, the longest match of
\* the window and then those of the windows left and right of it.
RECURSIVE matching_size(_, _, _, _, _, _, _)
matching_size(a, b, pop, alo, ahi, blo, bhi) ==
    IF alo >= ahi \/ blo >= bhi THEN 0
    ELSE LET m == find_longest_match(a, b, pop, alo, ahi, blo, bhi)
         IN  IF m.k = 0 THEN 0
             ELSE m.k + matching_size(a, b, pop, alo, m.i, blo, m.j)
                      + matching_size(a, b, pop, m.i + m.k, ahi, m.j + m.k, bhi)

\* SequenceMatcher(None, a, b).ratio() * 100 as the fraction 200 m / t: m
\* matched characters of the t = len(a) + len(b); 1.0 for two empty
\* sequences.
SequenceMatcher_ratio(a, b) ==
    IF Len(a) + Len(b) = 0 THEN [m |-> 1, t |-> 2]
    ELSE [m |-> matching_size(a, b, Popular(b), 0, Len(a), 0, Len(b)),
          t |-> Len(a) + Len(b)]

\* text.lower().translate(CLEAN_TRANS)
clean(text) == translate(lower(text), CLEAN_TRANS)

\* The chunk texts of the documents tried. ChunkA and ChunkA2 differ in
\* case and in their whitespace only; ChunkC shares half of ChunkA and
\* half of ChunkB; ChunkS is kept by the parser and too short to compare;
\* ChunkT is dropped by the parser.
RECURSIVE Rep(_, _)
Rep(s, n) == IF n = 0 THEN <<>> ELSE s \o Rep(s, n - 1)

ChunkA == strip(Rep(<<"a", "b", "c", "d", " ">>, 12))
ChunkA2 == strip(Rep(<<"A", "b", "c", "D", "\n">>, 12))
ChunkB == strip(Rep(<<"x", "y", "z", "1", "2", " ">>, 10))
ChunkC == Rep(<<"a", "b", "c", "d", " ">>, 6) \o strip(Rep(<<"x", "y", "z", "1", "2", " ">>, 5))
ChunkS == strip(Rep(<<"a", "b", "c", "d", " ">>, 4))
ChunkT == <<"a", "b", "c", "d">>

\* Two chunks that share their first ten characters of 66 and 67: ten
\* matched characters of 133, a ratio of 15.04 that rounds to 15.0.
ChunkX == <<"a", "b", "c", "d", "e", "f", "g", "h", "i", "j">> \o Rep(<<"m">>, 56)
ChunkY == <<"a", "b", "c", "d", "e", "f", "g", "h", "i", "j">> \o Rep(<<"n">>, 57)

\* The ratios of the compared chunk texts, computed once.
RatioCache ==
    LET texts == {clean(c) : c \in {ChunkA, ChunkA2, ChunkB, ChunkC, ChunkX, ChunkY}}
    IN  {<<x, y, SequenceMatcher_ratio(x, y)>> : x \in texts, y \in texts}

ratio(a, b) ==
    IF \E e \in RatioCache : e[1] = a /\ e[2] = b
    THEN (CHOOSE e \in RatioCache : e[1] = a /\ e[2] = b)[3]
    ELSE SequenceMatcher_ratio(a, b)

\* Mutant of Better: a tie replaces the best match, so the last one is kept.
BetterOrEqual(r, best) == r.m * best.t >= best.m * r.t

\* ratio > best_score
Better(r, best) == r.m * best.t > best.m * r.t

\* Mutant of AboveMinScore: every reference chunk compared gives a result.
AnyScore(score) == TRUE

\* best_score > 15
AboveMinScore(score) == 200 * score.m > MinScore * score.t

\* The inner loop of compare_structure from the k-th target chunk on.
RECURSIVE BestMatch(_, _, _, _)
BestMatch(ref_item, tgt_data, k, best) ==
    IF k > Len(tgt_data) THEN best
    ELSE IF Len(tgt_data[k].text) < MinCompareLen
         THEN BestMatch(ref_item, tgt_data, k + 1, best)
         ELSE LET r == ratio(clean(ref_item.text), clean(tgt_data[k].text))
              IN  IF Better(r, best.score)
                  THEN BestMatch(ref_item, tgt_data, k + 1,
                                 [score |-> r, page |-> tgt_data[k].page])
                  ELSE BestMatch(ref_item, tgt_data, k + 1, best)

\* The results of the outer loop from the k-th reference chunk on, the
\* score in tenths (round(best_score, 1); the doubles round as the exact
\* fractions do for chunk texts of fewer than 160 characters together).
RECURSIVE Results(_, _, _)
Results(ref_data, tgt_data, k) ==
    IF k > Len(ref_data) THEN <<>>
    ELSE IF Len(ref_data[k].text) < MinCompareLen
         THEN Results(ref_data, tgt_data, k + 1)
         ELSE LET best == BestMatch(ref_data[k], tgt_data, 1,
                                    [score |-> [m |-> 0, t |-> 1], page |-> <<"-">>])
              IN  (IF AboveMinScore(best.score)
                   THEN <<[ref_page |-> ref_data[k].page,
                           tgt_page |-> best.page,
                           score |-> RoundTenths(200 * best.score.m, best.score.t),
                           preview |-> replace_char(slice(ref_data[k].text, 0, PreviewLen),
                                                    "\n", " ") \o Dots]>>
                   ELSE <<>>)
                  \o Results(ref_data, tgt_data, k + 1)

\* list.sort(key=score, reverse=True): descending, equal scores keeping
\* their order.
RECURSIVE sort_by_score(_, _, _)
sort_by_score(results, k, sorted) ==
    IF k > Len(results) THEN sorted
    ELSE LET pos == Cardinality({p \in DOMAIN sorted :
                                    sorted[p].score >= results[k].score})
         IN  sort_by_score(results, k + 1,
                           SubSeq(sorted, 1, pos) \o <<results[k]>>
                               \o SubSeq(sorted, pos + 1, Len(sorted)))

\* compare_structure
compare_structure(ref, target) ==
    LET ref_data == parse_text_chunks_with_location(ref)
        tgt_data == parse_text_chunks_with_location(target)
    IN  sort_by_score(Results(ref_data, tgt_data, 1), 1, <<>>)

\* The most pages of a reference document.
MaxPages == 2

\* The chunks of the pages tried, and a page's text: its chunks separated
\* by a blank line, with a final newline.
Layouts ==
    {<<>>, <<ChunkA>>, <<ChunkA2>>, <<ChunkB>>, <<ChunkS>>,
     <<ChunkA, ChunkB>>, <<ChunkT, ChunkA2>>, <<ChunkS, ChunkC>>, <<ChunkX>>}

RECURSIVE PageText(_)
PageText(chunks) ==
    IF chunks = <<>> THEN <<"\n">>
    ELSE IF Len(chunks) = 1 THEN chunks[1] \o <<"\n">>
    ELSE chunks[1] \o <<"\n", "\n">> \o PageText(Tail(chunks))

Pages == {PageText(l) : l \in Layouts}

\* The targets that are not the reference: one page of ChunkC, two pages
\* with ChunkY and ChunkC on the second, a page with no chunk long enough,
\* and a file that cannot be opened.
OtherTargets ==
    {File("pdf", TRUE, TRUE, 0, <<PageText(<<ChunkC>>)>>, <<>>),
     File("pdf", TRUE, TRUE, 0, <<PageText(<<ChunkT>>), PageText(<<ChunkY, ChunkC>>)>>, <<>>),
     TextFile(TRUE, PageText(<<ChunkS>>)),
     File("pdf", FALSE, TRUE, 0, <<>>, <<>>)}

\* A deep inspection of a reference of up to MaxPages pages (a text file
\* when it has one) against itself or another target.
InitCmp ==
    /\ stop_flag = FALSE
    /\ is_searching = FALSE
    /\ nfiles = 1
    /\ startsLeft = 0
    /\ run = [t \in Threads |-> IdleRun]
    /\ afterQueue = 0
    /\ startQueue = <<>>
    /\ handlers = <<>>
    /\ extraction = NoJob
    /\ HAS_DOCX = TRUE
    /\ probe = FALSE
    /\ match = NoJob
    /\ simscan = NoJob
    /\ \E n \in 0..MaxPages :
         \E pages \in [1..n -> Pages], ext \in {"pdf", "txt"} :
           /\ ext = "txt" => n = 1
           /\ LET ref == IF ext = "txt" THEN TextFile(TRUE, pages[1])
                         ELSE File("pdf", TRUE, TRUE, 0, pages, <<>>)
              IN  \E target \in {ref} \cup OtherTargets :
                    inspect = [phase |-> "task", ref |-> ref, target |-> target,
                               results |-> <<>>]

\* open_inspector's thread: compare_structure(ref, target)
Compare ==
    /\ inspect.phase = "task"
    /\ inspect' = [inspect EXCEPT !.phase = "done",
                      !.results = compare_structure(inspect.ref, inspect.target)]
    /\ UNCHANGED <<searchVars, match, simscan, extraction, HAS_DOCX>>

NextCmp == Compare

SpecCmp == InitCmp /\ [][NextCmp]_vars

\* ------------------------------------------------------------ extraction

\* The most pages or paragraphs of a file read by the extractors.
MaxParts == 2

\* The texts of the pages or paragraphs, and the decoded bytes of a file:
\* none, or the first characters of a zip archive, with or without
\* carriage returns.
PartTexts == <<<<"a", "b">>, <<"c">>, <<"d", "e">>, <<"f">>>>
RawContents == {<<>>, <<"P", "K">>, <<"P", "K", "\r", "\n", "\r", "x">>}

\* One file of any extension class, with or without docx installed.
InitExt ==
    /\ stop_flag = FALSE
    /\ is_searching = FALSE
    /\ nfiles = 1
    /\ startsLeft = 0
    /\ run = [t \in Threads |-> IdleRun]
    /\ afterQueue = 0
    /\ startQueue = <<>>
    /\ handlers = <<>>
    /\ probe = FALSE
    /\ match = NoJob
    /\ simscan = NoJob
    /\ inspect = NoJob
    /\ HAS_DOCX \in BOOLEAN
    /\ \E ext \in {"pdf", "word", "txt"}, readable \in BOOLEAN, valid \in BOOLEAN,
          n \in 0..MaxParts, bad \in 0..MaxParts, content \in RawContents :
         /\ bad <= n
         /\ ext # "pdf" => bad = 0
         /\ ext = "txt" => (valid /\ n = 0)
         /\ extraction = [phase |-> "task",
                          file |-> File(ext, readable, valid, bad,
                                        SubSeq(PartTexts, 1, n), content),
                          text |-> <<>>, pages |-> <<>>]

\* The file goes through extract_text_from_file and extract_pages.
Extract ==
    /\ extraction.phase = "task"
    /\ extraction' = [extraction EXCEPT !.phase = "done",
                         !.text = extract_text_from_file(extraction.file),
                         !.pages = extract_pages(extraction.file)]
    /\ UNCHANGED <<searchVars, match, simscan, inspect, HAS_DOCX>>

NextExt == Extract

SpecExt == InitExt /\ [][NextExt]_vars

\* ------------------------------------------------------------ specifications

InitCommon ==
    /\ stop_flag = FALSE
    /\ is_searching = FALSE
    /\ run = [t \in Threads |-> IdleRun]
    /\ afterQueue = 0
    /\ startQueue = <<>>
    /\ handlers = <<>>
    /\ extraction = NoJob
    /\ HAS_DOCX = TRUE
    /\ match = NoJob
    /\ simscan = NoJob
    /\ inspect = NoJob

\* The front end with a folder selected; searches may be started while one
\* is active.
Init ==
    /\ InitCommon
    /\ nfiles \in 0..MaxFiles
    /\ startsLeft = MaxStarts
    /\ probe = FALSE

\* A search and one further start, which is what asks a search to stop.
InitStop ==
    /\ InitCommon
    /\ nfiles \in 0..MaxFiles
    /\ startsLeft = 2
    /\ probe = FALSE

\* One search over a folder of up to MaxJobs files.
InitRun ==
    /\ InitCommon
    /\ nfiles \in 0..MaxJobs
    /\ startsLeft = 1
    /\ probe = TRUE

Next ==
    \/ press_return
    \/ click_find_similar
    \/ browse_folder
    \/ start_keyword
    \/ start_similarity
    \/ askopenfilename_returns
    \/ update_returns
    \/ done
    \/ \E t \in Threads : thread_key(t)
    \/ \E t \in Threads : thread_sim(t)
    \/ \E t \in Threads : run_keyword_search(t)
    \/ \E t \in Threads : run_similarity_search(t)
    \/ \E t \in Threads : JobFinish(t)
    \/ \E t \in Threads : Take(t)
    \/ \E t \in Threads : on_match(t)
    \/ \E t \in Threads : on_prog(t)
    \/ \E t \in Threads : Finish(t)
    \/ \E t \in Threads : LeaveAfterBreak(t)
    \/ \E t \in Threads : on_done(t)
    \/ \E t \in Threads : thread_ends(t)

\* The steps of a single search, which nobody asks to stop.
NextRun ==
    \/ press_return
    \/ click_find_similar
    \/ browse_folder
    \/ start_keyword
    \/ start_similarity
    \/ askopenfilename_returns
    \/ update_returns
    \/ done
    \/ \E t \in Threads : thread_key(t)
    \/ \E t \in Threads : thread_sim(t)
    \/ \E t \in Threads : run_keyword_search(t)
    \/ \E t \in Threads : run_similarity_search(t)
    \/ \E t \in Threads : JobFinish(t)
    \/ \E t \in Threads : Take(t)
    \/ \E t \in Threads : on_match(t)
    \/ \E t \in Threads : on_prog(t)
    \/ \E t \in Threads : Finish(t)
    \/ \E t \in Threads : on_done(t)
    \/ \E t \in Threads : thread_ends(t)

Spec == Init /\ [][Next]_vars

SpecStop == InitStop /\ [][Next]_vars

SpecRun == InitRun /\ [][NextRun]_vars

\* ------------------------------------------------------------ claims

\* C1 (as claimed): every search that has returned called on_done exactly
\* once, with the number of matches it had counted.
C1_DoneExactlyOnce ==
    \A t \in Threads :
        (run[t].pc = "returned" /\ "on_done" \in run[t].cbs)
            => (run[t].doneCalls = 1 /\ run[t].doneArg = run[t].matches)

\* C2 (as claimed): at most one search is inside _run_pool at a time, and a
\* stop request made of a search in its loop stays set until it is seen.
C2_OneSearchAtATime ==
    /\ Cardinality({t \in Threads : run[t].pc \in InPool}) <= 1
    /\ \A t \in Threads : (run[t].pc = "loop" /\ run[t].stopReq) => stop_flag

\* C3 (as claimed): no run calls on_match for a completion it takes from
\* as_completed after stop() was called during that run.
C3_NoMatchAfterStop ==
    \A t \in Threads : ~run[t].lateMatch

\* C4: a run that saw the flag has no job added to its pool (the futures are
\* those submitted at the start: pending, finished, the one handed out at the
\* break and those counted) and its executor refers to no manager thread;
\* leaving the with block and then the call of on_done are possible at once,
\* whatever the number of jobs still pending.
C4_ShutdownDoesNotWait ==
    \A t \in Threads :
        run[t].cancelled
            => /\ run[t].pending + run[t].ready + run[t].count + 1 = run[t].total
               /\ ~run[t].mgr
               /\ run[t].pc \in {"exit", "on_done", "posted", "returned"}
               /\ run[t].pc = "exit" => ENABLED LeaveAfterBreak(t)
               /\ run[t].pc = "on_done" => ENABLED on_done(t)
               /\ run[t].pc \in {"posted", "returned"} => run[t].doneCalls = 1

\* C4 witness: a cancelled run has called on_done and returned while jobs it
\* had submitted were still pending.
C4_Witness ==
    \E t \in Threads :
        /\ run[t].pc = "returned" /\ run[t].cancelled
        /\ run[t].doneCalls = 1 /\ run[t].pending > 0

\* C5: a run over N >= 1 jobs that drained them all and left the loop made
\* its last on_prog call on the N-th completion, with percent 100.
C5_FinalProgressIs100 ==
    \A t \in Threads :
        (run[t].pc \in {"on_done", "posted", "returned"} /\ ~run[t].cancelled
         /\ run[t].total >= 1 /\ "on_prog" \in run[t].cbs)
            => /\ run[t].progCalls >= 1
               /\ run[t].progFinal = run[t].total
               /\ run[t].progLast = 100

\* C5 witness: a drained run whose N is above the cadence and no multiple of
\* it, with the cadence report and the final report both made.
C5_Witness ==
    \E t \in Threads :
        /\ run[t].pc = "returned" /\ ~run[t].cancelled
        /\ run[t].total > Cadence /\ run[t].total % Cadence # 0
        /\ run[t].progCalls = 2 /\ run[t].progLast = 100

\* C6: every percent a run passed to on_prog was in 0..100 and not below the
\* one it passed before.
C6_ProgressMonotone ==
    \A t \in Threads : run[t].progMono

\* C6 witness: a run has reported progress twice, the first time below 100,
\* over jobs of which one matched and the last one failed.
C6_Witness ==
    \E t \in Threads :
        /\ run[t].progCalls = 2 /\ run[t].progLast > Percent(Cadence, run[t].total)
        /\ run[t].matches >= 1 /\ run[t].last = "raise"

\* C7: a turn of the loop that takes a future holding an exception counts
\* it, leaves the match count and on_match alone and goes to the call of
\* on_prog when the cadence applies, else back to as_completed; the call of
\* on_prog reports the count reached and goes back to as_completed; and a
\* run that was not cancelled leaves the loop only with every job counted,
\* and returns only with on_done called.
C7_FailureIsNonMatch ==
    /\ [](\A t \in Threads :
            (run[t].pc \in {"on_done", "posted", "returned"} /\ ~run[t].cancelled
             /\ run[t].total >= 1)
                => /\ run[t].count = run[t].total
                   /\ run[t].pc # "on_done" => run[t].doneCalls = 1)
    /\ [][\A t \in Threads :
            (run[t].pc = "loop" /\ ~stop_flag /\ run'[t].ready = run[t].ready - 1
             /\ run'[t].last = "raise")
                => /\ run'[t].pc = IF ProgressDue(run'[t]) THEN "on_prog" ELSE "loop"
                   /\ run'[t].count = run[t].count + 1
                   /\ run'[t].matches = run[t].matches
                   /\ run'[t].onMatchCalls = run[t].onMatchCalls]_vars
    /\ [][\A t \in Threads :
            run[t].pc = "on_prog"
                => /\ \/ /\ run'[t].pc = "on_prog"
                         /\ run'[t].progCalls = run[t].progCalls
                      \/ /\ run'[t].pc = "loop"
                         /\ run'[t].progCalls = run[t].progCalls + 1
                         /\ run'[t].progFinal = run[t].count
                   /\ run'[t].count = run[t].count
                   /\ run'[t].matches = run[t].matches
                   /\ run'[t].onMatchCalls = run[t].onMatchCalls]_vars

\* C7 witness: a run in which the last job handed out had failed, and an
\* earlier one matched, has counted all its jobs and called on_done.
C7_Witness ==
    \E t \in Threads :
        /\ run[t].pc = "returned" /\ run[t].last = "raise"
        /\ run[t].total >= 2 /\ run[t].count = run[t].total
        /\ run[t].matches >= 1 /\ run[t].doneCalls = 1

\* C8 (as claimed): in literal mode, a query that, lower-cased and with all
\* whitespace removed, occurs in the file's text, lower-cased and with all
\* whitespace removed, is reported as a match on that file.
C8_LiteralSubstringMatches ==
    (match.phase = "done" /\ ~match.regex
     /\ contains(translate(lower(match.query), CLEAN_TRANS),
                 translate(lower(extract_text_from_file(match.file)), CLEAN_TRANS)))
        => match.res.found

\* The token sets as the claim speaks of them: the words of more than three
\* characters of a document, case-folded.
C9_Tokens(file) ==
    IF file.readable THEN get_tokens(file.content) ELSE {}

\* C9: the target is reported iff it has tokens and 100 |I| > 5 |U|; a
\* target that is not reported carries no score; and a target whose tokens
\* are those of the reference is reported with 100.0.
C9_JaccardThreshold ==
    simscan.phase = "done" =>
        LET R == C9_Tokens(simscan.ref)
            T == C9_Tokens(simscan.target)
            I == Cardinality(R \cap T)
            U == Cardinality(R \cup T)
        IN  /\ simscan.res.found <=> (T # {} /\ 100 * I > 5 * U)
            /\ ~simscan.res.found => simscan.res.score = 0
            /\ simscan.res.found => (simscan.res.score > 50 /\ simscan.res.score <= 1000)
            /\ (T = R) => (simscan.res.found /\ simscan.res.score = 1000)

\* C9 witness: a target sharing one token of a union of twenty scores
\* exactly 5.0 and is not reported.
C9_Witness ==
    /\ simscan.phase = "done"
    /\ Cardinality(C9_Tokens(simscan.ref) \cap C9_Tokens(simscan.target)) = 1
    /\ Cardinality(C9_Tokens(simscan.ref) \cup C9_Tokens(simscan.target)) = 20
    /\ ~simscan.res.found

\* The reference chunks that are compared, in document order.
C10_Compared(doc) ==
    SelectSeq(parse_text_chunks_with_location(doc),
              LAMBDA c : Len(c.text) >= MinCompareLen)

\* The first compared chunk whose text is that of the k-th one once case
\* and whitespace are set aside.
C10_FirstLike(chunks, k) ==
    chunks[Min({j \in DOMAIN chunks : clean(chunks[j].text) = clean(chunks[k].text)})]

\* C10 (as claimed): comparing a document with itself, every reference
\* chunk of 50 characters or more yields a result scored 100.0 whose target
\* page is the chunk's own page.
C10_SamePageOnSelfCompare ==
    (inspect.phase = "done" /\ inspect.target = inspect.ref) =>
        LET chunks == C10_Compared(inspect.ref)
        IN  /\ Len(inspect.results) = Len(chunks)
            /\ \A k \in DOMAIN chunks :
                 /\ inspect.results[k].ref_page = chunks[k].page
                 /\ inspect.results[k].score = 1000
                 /\ inspect.results[k].tgt_page = chunks[k].page

\* C10 (amended): comparing a document with itself, every reference chunk
\* of 50 characters or more yields a result scored 100.0 whose target page
\* is the page of the first chunk of 50 characters or more with the same
\* text up to case and whitespace: the chunk's own page unless an earlier
\* chunk has that text.
C10_FirstEqualChunkPage ==
    (inspect.phase = "done" /\ inspect.target = inspect.ref) =>
        LET chunks == C10_Compared(inspect.ref)
        IN  /\ Len(inspect.results) = Len(chunks)
            /\ \A k \in DOMAIN chunks :
                 /\ inspect.results[k].ref_page = chunks[k].page
                 /\ inspect.results[k].score = 1000
                 /\ inspect.results[k].tgt_page = C10_FirstLike(chunks, k).page
                 /\ (\A j \in 1..(k - 1) : clean(chunks[j].text) # clean(chunks[k].text))
                        => inspect.results[k].tgt_page = chunks[k].page

\* C10 witness: a document compared with itself in which a chunk of page 2
\* repeats one of page 1, and is paired with page 1.
C10_Witness ==
    /\ inspect.phase = "done"
    /\ inspect.target = inspect.ref
    /\ \E k \in DOMAIN inspect.results :
         /\ inspect.results[k].ref_page = str(2)
         /\ inspect.results[k].tgt_page = str(1)
         /\ inspect.results[k].score = 1000

\* What the claim counts as an extraction failure: the file cannot be
\* opened, its library rejects it or one of its pages, or it is a word
\* file and docx is missing.
C11_Fails(file) ==
    \/ ~file.readable
    \/ (file.ext \in {"pdf", "word"} /\ ~file.valid)
    \/ (file.ext = "pdf" /\ file.bad # 0)
    \/ (file.ext = "word" /\ ~HAS_DOCX)

\* C11 (as claimed): on every extraction failure, a word file without docx
\* included, extract_text_from_file gives the empty string and
\* extract_pages the empty list.
C11_EmptyOnFailure ==
    (extraction.phase = "done" /\ C11_Fails(extraction.file)) =>
        (extraction.text = <<>> /\ extraction.pages = <<>>)

\* The term _check_match looks for in the lower-cased text of a literal
\* match: the compressed query when the compressed text holds it, else its
\* reversal.
C12_Term ==
    LET q_c == NormaliseQuery(match.query, FALSE)
        compressed == translate(lower(extract_text_from_file(match.file)), CLEAN_TRANS)
    IN  IF contains(q_c, compressed) THEN q_c ELSE reversed(q_c)

\* C12 (as claimed): a literal match whose term cannot be located in the
\* lower-cased, uncompressed text carries the message "Match found", not
\* a window of the file.
C12_GenericMessageWhenNotLocated ==
    (match.phase = "done" /\ ~match.regex /\ match.res.found
     /\ find(lower(extract_text_from_file(match.file)), C12_Term) = -1)
        => match.res.ctx = MatchFound

\* C13: in every run given an on_match callback, on_match was called once
\* for each match counted (a match is counted just before its call, so at
\* the call the count is one ahead) and never more often than futures were
\* handed out, which are never more than the jobs submitted; the count given
\* to on_done is the number of on_match calls of that run, whether the run
\* drained its jobs or was cancelled.
C13_DoneCountIsMatchCalls ==
    \A t \in Threads :
        "on_match" \in run[t].cbs =>
            /\ run[t].onMatchCalls =
                   IF run[t].pc = "on_match" THEN run[t].matches - 1 ELSE run[t].matches
            /\ run[t].onMatchCalls <= run[t].count
            /\ run[t].count + run[t].ready + run[t].pending <= run[t].total
            /\ run[t].doneCalls <= 1
            /\ run[t].doneCalls = 1 => run[t].doneArg = run[t].onMatchCalls

\* C13 witness: a run that called on_match, was then cancelled with jobs
\* not yet handed out, and gave on_done its number of on_match calls.
C13_Witness ==
    \E t \in Threads :
        /\ run[t].pc = "returned"
        /\ run[t].cancelled
        /\ run[t].onMatchCalls >= 1
        /\ run[t].count < run[t].total
        /\ run[t].doneCalls = 1
        /\ run[t].doneArg = run[t].onMatchCalls

\* A result is backed by a pair of chunks of 50 characters or more: a
\* reference chunk on its reference page whose preview it shows, and a
\* target chunk on its target page whose ratio to it exceeds 15 and rounds
\* to its score.
C14_Backed(res) ==
    \E c \in Range(C10_Compared(inspect.ref)), d \in Range(C10_Compared(inspect.target)) :
        /\ c.page = res.ref_page
        /\ res.preview = replace_char(slice(c.text, 0, PreviewLen), "\n", " ") \o Dots
        /\ d.page = res.tgt_page
        /\ AboveMinScore(ratio(clean(c.text), clean(d.text)))
        /\ res.score = RoundTenths(200 * ratio(clean(c.text), clean(d.text)).m,
                                   ratio(clean(c.text), clean(d.text)).t)

\* The results are no more than the compared reference chunks, there is
\* none without a target chunk of 50 characters or more, the target page
\* is never the placeholder, and the scores never increase along the list.
C14_Shape ==
    /\ Len(inspect.results) <= Len(C10_Compared(inspect.ref))
    /\ C10_Compared(inspect.target) = <<>> => inspect.results = <<>>
    /\ \A k \in DOMAIN inspect.results :
         /\ C14_Backed(inspect.results[k])
         /\ inspect.results[k].tgt_page # <<"-">>
         /\ inspect.results[k].score <= 1000
    /\ \A j, k \in DOMAIN inspect.results :
         j < k => inspect.results[j].score >= inspect.results[k].score

\* C14 (as claimed): every result has a score above 15 and at most 100 and
\* the page of a target chunk of 50 characters or more; short reference
\* chunks and targets without such a chunk give no result; the list is in
\* descending order of score.
C14_ScoreAbove15 ==
    inspect.phase = "done" =>
        /\ C14_Shape
        /\ \A k \in DOMAIN inspect.results : inspect.results[k].score > 10 * MinScore

\* C14 (amended): as claimed, except that the score shown, which is rounded
\* to one decimal, is at least 15.0; it is the unrounded best ratio that
\* exceeds 15.
C14_ScoreAtLeast15 ==
    inspect.phase = "done" =>
        /\ C14_Shape
        /\ \A k \in DOMAIN inspect.results : inspect.results[k].score >= 10 * MinScore

\* C14 witness: a comparison with several results of different scores, one
\* of them 15.0, from a reference that has a short chunk as well.
C14_Witness ==
    /\ inspect.phase = "done"
    /\ \E c \in Range(parse_text_chunks_with_location(inspect.ref)) :
         Len(c.text) < MinCompareLen
    /\ \E k \in DOMAIN inspect.results : inspect.results[k].score = 10 * MinScore
    /\ \E j, k \in DOMAIN inspect.results :
         inspect.results[j].score > inspect.results[k].score

====
